---- MODULE Spec2Model ----
(***************************************************************************)
(* Model of the HC-SR04 ultrasonic ranging driver (src/HCSR04.cpp) as it   *)
(* is built for the AVR target of the project (Arduino Mega 2560):         *)
(* unsigned int is 16 bits wide, long and unsigned long are 32 bits wide.  *)
(* The non-blocking functions are modelled as compiled with one of the     *)
(* USE_PIN_CHANGE_INTERRUPT_* symbols defined.  The application that uses  *)
(* the driver (src/Blind_Guidance.ino) is modelled by its setup and loop.  *)
(***************************************************************************)
EXTENDS Integers, Sequences, FiniteSets, TLC

(***************************************************************************)
(* Bounds of the model and the small input sets of the operations.         *)
(***************************************************************************)
\* How many times the clock advances in one behaviour.
MaxTicks == 2
\* How many interrupt handler invocations are recorded per measurement cycle.
MaxEdges == 3

\* Amounts of microseconds by which the clock advances in one step: the
\* round trip of 1 m, and a pulse longer than 16 bits can hold (65536 + 5825).
TickSteps == {5825, 71361}
\* Timeouts in centimeters handed to the blocking measurement.
TimeoutCentimeters == {0, 100, 300}
\* Timeouts in centimeters handed to the non-blocking measurement.
StartTimeoutCentimeters == {0, 100}
\* Timeouts in microseconds handed to the blocking operations.
TimeoutMicros == {0, 5825, 20000}
\* Echo pulse durations (microseconds) the sensor answers a blocking
\* measurement with; 0 is "no echo".
PulseMicros == {0, 582, 5825, 11650}
\* Pins handed to the initialisations.  0 as echo pin requests 1 pin mode.
TriggerPins == {5}
EchoPins == {0, 4}
\* The inputs of the two strategies used together: a timeout of 1 m, an
\* echo within it (10 cm) and one beyond it (2 m), the clock advancing by
\* the round trip of 1 m.
DriverTimeoutMicros == {5825}
DriverTimeoutCentimeters == {100}
DriverPulseMicros == {582, 11650}
DriverTickSteps == {5825}
\* Echo pulse durations the sensor answers the application's measurements
\* with: none, and every 50 us up to 20 ms (3.43 m).
LoopPulses == {k * 50 : k \in 0 .. 400}

(***************************************************************************)
(* Integer widths of the AVR build.                                        *)
(***************************************************************************)
UIntBits == 16
UIntModulus == 2 ^ UIntBits
UIntRange == 0 .. (UIntModulus - 1)
\* Conversion of a non-negative value to unsigned int (16 bit).
ToUInt(x) == x % UIntModulus

HCSR04_MODE_UNITITIALIZED == "UNITITIALIZED"
HCSR04_MODE_USE_1_PIN == "USE_1_PIN"
HCSR04_MODE_USE_2_PINS == "USE_2_PINS"
Modes == {HCSR04_MODE_UNITITIALIZED, HCSR04_MODE_USE_1_PIN, HCSR04_MODE_USE_2_PINS}

(***************************************************************************)
(* Hardware accesses, recorded in the order the code performs them.        *)
(***************************************************************************)
DigitalWrite(pin, level) == [op |-> "digitalWrite", pin |-> pin, level |-> level]
PinMode(pin, dir) == [op |-> "pinMode", pin |-> pin, dir |-> dir]
DelayMicroseconds(us) == [op |-> "delayMicroseconds", us |-> us]
PulseIn(pin, timeout) == [op |-> "pulseInLong", pin |-> pin, us |-> timeout]
SerialPrint(label, value) == [op |-> "Serial.print", label |-> label, value |-> value]
Play(file) == [op |-> "tmrpcm.play", file |-> file]
Delay(ms) == [op |-> "delay", ms |-> ms]
EnablePCInt(pin) == [op |-> "enablePCINT", pin |-> pin]
DisablePCInt(pin) == [op |-> "disablePCINT", pin |-> pin]

(***************************************************************************)
(* Pure functions.                                                         *)
(***************************************************************************)
\* The multiplication carried out in unsigned int, as it is without the L
\* suffix of the literal.
getCentimeterFromUSMicroSeconds_IntMult(aDistanceMicros) ==
    ToUInt(ToUInt(aDistanceMicros * 100) \div 5825)

\* (aDistanceMicros * 100L) / 5825: the product is a long (at most
\* 6553500 for a 16 bit argument), the quotient is returned as unsigned int.
getCentimeterFromUSMicroSeconds(aDistanceMicros) ==
    ToUInt((aDistanceMicros * 100) \div 5825)

\* The sum computed in unsigned int, as it is without the L suffix.
TimeoutMicrosLong_IntArith(aTimeoutCentimeter) ==
    ToUInt(ToUInt(ToUInt(aTimeoutCentimeter * 233) + 2) \div 4)

\* unsigned int tTimeoutMicros = ((aTimeoutCentimeter * 233L) + 2) / 4:
\* computed as long (at most 15269657), stored in an unsigned int.
TimeoutMicrosLong(aTimeoutCentimeter) ==
    ToUInt(((aTimeoutCentimeter * 233) + 2) \div 4)

\* sTimeoutMicros = ((aTimeoutCentimeter * 233) + 2) / 4: product and sum
\* are unsigned int and wrap at 16 bits.
TimeoutMicrosUInt(aTimeoutCentimeter) ==
    ToUInt(ToUInt(ToUInt(aTimeoutCentimeter * 233) + 2) \div 4)

\* pulseInLong(pin, HIGH, timeout) of the Arduino core: the width of the
\* echo pulse, 0 when no pulse ended within the timeout.
pulseInLong(aTimeoutMicros, aPulse) ==
    IF aPulse > 0 /\ aPulse <= aTimeoutMicros THEN aPulse ELSE 0

(***************************************************************************)
(* State.                                                                  *)
(***************************************************************************)
VARIABLES
    \* the driver's globals
    sTriggerOutPin,         \* also the shared pin of 1 pin mode
    sEchoInPin,
    sHCSR04Mode,
    sUSDistanceCentimeter,  \* result of the non-blocking measurement
    sUSPulseMicros,         \* volatile, written by the handler
    sUSValueIsValid,        \* volatile, written by the handler
    sMicrosAtStartOfPulse,  \* volatile, written by the handler
    sTimeoutMicros,
    \* hardware
    PCMSK,                  \* the pins enabled for the pin change interrupt
    micros,                 \* the microsecond clock
    \* the main flow
    pc,                     \* "idle", or the source line the main flow is at
    \* what an observer of the calls sees
    lastOp,                 \* the operation called last
    lastArg,                \* its arguments and inputs
    retVal,                 \* what it returned (once pc is "idle" again)
    pollBranch,             \* the return statement a poll took
    hwLog,                  \* the hardware accesses of the last operation
    isrLog,                 \* the handler invocations since the last start
    isrInStart,             \* how many of them ran before the start returned
    isrAtPoll,              \* how many of them ran before the poll was called
    startedAt,              \* the clock when the last start was called, -1: never
    validResult,            \* the centimeters of the first poll since the last
                            \* start that returned a valid result, -1: none
                            \* (recorded by Poll287Recorded only)
    prevRet,                \* what the call before returned, when it was the
                            \* same blocking measurement with the same
                            \* arguments and the same echo; -1 otherwise
    ticks                   \* how often the clock advanced

vars == <<sTriggerOutPin, sEchoInPin, sHCSR04Mode, sUSDistanceCentimeter,
          sUSPulseMicros, sUSValueIsValid, sMicrosAtStartOfPulse,
          sTimeoutMicros, PCMSK, micros, pc, lastOp, lastArg, retVal,
          pollBranch, hwLog, isrLog, isrInStart, isrAtPoll, startedAt,
          validResult, prevRet, ticks>>

pinVars == <<sTriggerOutPin, sEchoInPin, sHCSR04Mode>>
nonBlockingVars == <<sUSDistanceCentimeter, sUSPulseMicros, sUSValueIsValid,
                     sMicrosAtStartOfPulse, sTimeoutMicros, PCMSK>>
callVars == <<lastOp, lastArg, retVal, pollBranch, hwLog, isrAtPoll, prevRet>>
cycleVars == <<isrLog, isrInStart, startedAt, validResult>>

\* The globals are zero initialised; the mode is set by its initialiser.
Init ==
    /\ sTriggerOutPin = 0
    /\ sEchoInPin = 0
    /\ sHCSR04Mode = HCSR04_MODE_UNITITIALIZED
    /\ sUSDistanceCentimeter = 0
    /\ sUSPulseMicros = 0
    /\ sUSValueIsValid = FALSE
    /\ sMicrosAtStartOfPulse = 0
    /\ sTimeoutMicros = 0
    /\ PCMSK = {}
    /\ micros = 0
    /\ pc = "idle"
    /\ lastOp = "none"
    /\ lastArg = <<>>
    /\ retVal = "void"
    /\ pollBranch = "none"
    /\ hwLog = <<>>
    /\ isrLog = <<>>
    /\ isrInStart = 0
    /\ isrAtPoll = 0
    /\ startedAt = -1
    /\ validResult = -1
    /\ prevRet = -1
    /\ ticks = 0

BlockingOps == {"getUSDistance", "getUSDistanceAsCentiMeter",
                "getUSDistanceAsCentiMeterWithCentimeterTimeout"}

\* A call of the main flow: the observer's record of it.
Called(op, args) ==
    /\ pc = "idle"
    /\ lastOp' = op
    /\ lastArg' = args
    /\ prevRet' = IF op \in BlockingOps /\ lastOp = op /\ lastArg = args
                  THEN retVal
                  ELSE -1

\* A call that is no poll.
NoPoll ==
    /\ pollBranch' = "none"
    /\ isrAtPoll' = 0

(***************************************************************************)
(* Pin configuration.                                                      *)
(***************************************************************************)
\* The echo pin 0 taken as a pin like any other.
initUSDistancePins_AlwaysTwoPins(aTriggerOutPin, aEchoInPin) ==
    /\ Called("initUSDistancePins", <<aTriggerOutPin, aEchoInPin>>)
    /\ NoPoll
    /\ sTriggerOutPin' = aTriggerOutPin
    /\ sEchoInPin' = aEchoInPin
    /\ hwLog' = <<PinMode(aTriggerOutPin, "OUTPUT"),
                  PinMode(aEchoInPin, "INPUT")>>
    /\ sHCSR04Mode' = HCSR04_MODE_USE_2_PINS
    /\ retVal' = "void"
    /\ UNCHANGED <<nonBlockingVars, micros, pc, cycleVars, ticks>>

initUSDistancePins(aTriggerOutPin, aEchoInPin) ==
    /\ Called("initUSDistancePins", <<aTriggerOutPin, aEchoInPin>>)
    /\ NoPoll
    /\ sTriggerOutPin' = aTriggerOutPin
    /\ IF aEchoInPin = 0
       THEN /\ sHCSR04Mode' = HCSR04_MODE_USE_1_PIN
            /\ sEchoInPin' = sEchoInPin
            /\ hwLog' = <<>>
       ELSE /\ sEchoInPin' = aEchoInPin
            /\ hwLog' = <<PinMode(aTriggerOutPin, "OUTPUT"),
                          PinMode(aEchoInPin, "INPUT")>>
            /\ sHCSR04Mode' = HCSR04_MODE_USE_2_PINS
    /\ retVal' = "void"
    /\ UNCHANGED <<nonBlockingVars, micros, pc, cycleVars, ticks>>

initUSDistancePin(aTriggerOutEchoInPin) ==
    /\ Called("initUSDistancePin", <<aTriggerOutEchoInPin>>)
    /\ NoPoll
    /\ sTriggerOutPin' = aTriggerOutEchoInPin
    /\ sHCSR04Mode' = HCSR04_MODE_USE_1_PIN
    /\ hwLog' = <<>>
    /\ retVal' = "void"
    /\ UNCHANGED <<sEchoInPin, nonBlockingVars, micros, pc, cycleVars, ticks>>

(***************************************************************************)
(* Blocking measurement.                                                   *)
(***************************************************************************)
\* The pin switched to output before it is driven high.
getUSDistanceTrigger_OutputFirst ==
    (IF sHCSR04Mode = HCSR04_MODE_USE_1_PIN
     THEN <<PinMode(sTriggerOutPin, "OUTPUT")>>
     ELSE <<>>)
    \o <<DigitalWrite(sTriggerOutPin, "HIGH"), DelayMicroseconds(10),
         DigitalWrite(sTriggerOutPin, "LOW")>>

\* The pulse held high for 20 us in 1 pin mode.
getUSDistanceTrigger_LongPulseOnePin ==
    <<DigitalWrite(sTriggerOutPin, "HIGH")>>
    \o (IF sHCSR04Mode = HCSR04_MODE_USE_1_PIN
        THEN <<PinMode(sTriggerOutPin, "OUTPUT"), DelayMicroseconds(20)>>
        ELSE <<DelayMicroseconds(10)>>)
    \o <<DigitalWrite(sTriggerOutPin, "LOW")>>

\* Lines 98-111: the trigger pulse.
getUSDistanceTrigger ==
    <<DigitalWrite(sTriggerOutPin, "HIGH")>>
    \o (IF sHCSR04Mode = HCSR04_MODE_USE_1_PIN
        THEN <<PinMode(sTriggerOutPin, "OUTPUT")>>
        ELSE <<>>)
    \o <<DelayMicroseconds(10), DigitalWrite(sTriggerOutPin, "LOW")>>

\* Lines 113-141: the choice of the echo pin and the pulse measurement.
getUSDistanceEcho(aTimeoutMicros) ==
    IF sHCSR04Mode = HCSR04_MODE_USE_1_PIN
    THEN <<DelayMicroseconds(20), PinMode(sTriggerOutPin, "INPUT"),
           PulseIn(sTriggerOutPin, aTimeoutMicros)>>
    ELSE <<PulseIn(sEchoInPin, aTimeoutMicros)>>

\* The check of the mode left out.
getUSDistanceAccesses_NoModeCheck(aTimeoutMicros) ==
    getUSDistanceTrigger \o getUSDistanceEcho(aTimeoutMicros)

\* The hardware accesses of getUSDistance, in order.
getUSDistanceAccesses(aTimeoutMicros) ==
    IF sHCSR04Mode = HCSR04_MODE_UNITITIALIZED
    THEN <<>>
    ELSE getUSDistanceTrigger \o getUSDistanceEcho(aTimeoutMicros)

\* The duration the handler stored last returned when no echo arrived.
getUSDistance_StoredPulse(aTimeoutMicros, aPulse) ==
    IF sHCSR04Mode = HCSR04_MODE_UNITITIALIZED
    THEN 0
    ELSE IF pulseInLong(aTimeoutMicros, aPulse) = 0
         THEN ToUInt(sUSPulseMicros)
         ELSE ToUInt(pulseInLong(aTimeoutMicros, aPulse))

\* What getUSDistance returns when the sensor answers with aPulse.
getUSDistance(aTimeoutMicros, aPulse) ==
    IF sHCSR04Mode = HCSR04_MODE_UNITITIALIZED
    THEN 0
    ELSE ToUInt(pulseInLong(aTimeoutMicros, aPulse))

getUSDistanceAsCentiMeter(aTimeoutMicros, aPulse) ==
    getCentimeterFromUSMicroSeconds(getUSDistance(aTimeoutMicros, aPulse))

\* A blocking call: it returns before anything else of the main flow runs.
Blocking(op, args, accesses, result) ==
    /\ Called(op, args)
    /\ NoPoll
    /\ hwLog' = accesses
    /\ retVal' = result
    /\ UNCHANGED <<pinVars, nonBlockingVars, micros, pc, cycleVars, ticks>>

CallGetUSDistance(aTimeoutMicros, aPulse) ==
    Blocking("getUSDistance", <<aTimeoutMicros, aPulse>>,
             getUSDistanceAccesses(aTimeoutMicros),
             getUSDistance(aTimeoutMicros, aPulse))

CallGetUSDistanceAsCentiMeter(aTimeoutMicros, aPulse) ==
    Blocking("getUSDistanceAsCentiMeter", <<aTimeoutMicros, aPulse>>,
             getUSDistanceAccesses(aTimeoutMicros),
             getUSDistanceAsCentiMeter(aTimeoutMicros, aPulse))

CallGetUSDistanceAsCentiMeterWithCentimeterTimeout(aTimeoutCentimeter, aPulse) ==
    LET tTimeoutMicros == TimeoutMicrosLong(aTimeoutCentimeter)
    IN  Blocking("getUSDistanceAsCentiMeterWithCentimeterTimeout",
                 <<aTimeoutCentimeter, aPulse>>,
                 getUSDistanceAccesses(tTimeoutMicros),
                 getUSDistanceAsCentiMeter(tTimeoutMicros, aPulse))

CallGetCentimeterFromUSMicroSeconds(aDistanceMicros) ==
    Blocking("getCentimeterFromUSMicroSeconds", <<aDistanceMicros>>, <<>>,
             getCentimeterFromUSMicroSeconds(aDistanceMicros))

(***************************************************************************)
(* Non-blocking measurement.  The interrupt handler runs between the       *)
(* statements of the main flow; pc names the line the main flow executes   *)
(* next.  Statements that touch nothing the handler reads or writes are    *)
(* joined with the statement before them.                                  *)
(***************************************************************************)
\* The handler, run with the state of the echo pin the vector read.  It
\* runs when a pin enabled in PCMSK changes.
handlePCInterrupt(aPortState) ==
    /\ PCMSK # {}
    /\ Len(isrLog) < MaxEdges
    /\ IF aPortState > 0
       THEN /\ sMicrosAtStartOfPulse' = micros
            /\ UNCHANGED <<sUSPulseMicros, sUSValueIsValid>>
       ELSE /\ sUSPulseMicros' = micros - sMicrosAtStartOfPulse
            /\ sUSValueIsValid' = TRUE
            /\ UNCHANGED sMicrosAtStartOfPulse
    /\ isrLog' = Append(isrLog, [state |-> aPortState, at |-> micros])
    /\ UNCHANGED <<pinVars, sUSDistanceCentimeter, sTimeoutMicros, PCMSK,
                   micros, pc, callVars, isrInStart, startedAt, validResult,
                   ticks>>

\* Lines 261-267: trigger high, the flag cleared, the timeout stored, the
\* echo pin and its group enabled, the pending interrupt flag cleared.
Start261(aTimeoutCentimeter) ==
    /\ Called("startUSDistanceAsCentiMeterWithCentimeterTimeoutNonBlocking",
              <<aTimeoutCentimeter>>)
    /\ NoPoll
    /\ retVal' = "void"
    /\ sUSValueIsValid' = FALSE
    /\ sTimeoutMicros' = TimeoutMicrosUInt(aTimeoutCentimeter)
    /\ PCMSK' = PCMSK \cup {sEchoInPin}
    /\ hwLog' = <<DigitalWrite(sTriggerOutPin, "HIGH"), EnablePCInt(sEchoInPin)>>
    /\ pc' = "268"
    /\ isrLog' = <<>>
    /\ isrInStart' = 0
    /\ startedAt' = micros
    /\ validResult' = -1
    /\ UNCHANGED <<pinVars, sUSDistanceCentimeter, sUSPulseMicros,
                   sMicrosAtStartOfPulse, micros, ticks>>

\* Line 268.
Start268 ==
    /\ pc = "268"
    /\ sUSPulseMicros' = 0
    /\ pc' = "269"
    /\ UNCHANGED <<pinVars, sUSDistanceCentimeter, sUSValueIsValid,
                   sMicrosAtStartOfPulse, sTimeoutMicros, PCMSK, micros,
                   callVars, cycleVars, ticks>>

\* The start timestamp of the cycle before left as it is.
Start269_NoReset ==
    /\ pc = "269"
    /\ pc' = "274"
    /\ UNCHANGED <<pinVars, nonBlockingVars, micros, callVars, cycleVars,
                   ticks>>

\* Line 269.
Start269 ==
    /\ pc = "269"
    /\ sMicrosAtStartOfPulse' = 0
    /\ pc' = "274"
    /\ UNCHANGED <<pinVars, sUSDistanceCentimeter, sUSPulseMicros,
                   sUSValueIsValid, sTimeoutMicros, PCMSK, micros, callVars,
                   cycleVars, ticks>>

\* Lines 274-278: the trigger pulse ends and the function returns.
Start274 ==
    /\ pc = "274"
    /\ hwLog' = hwLog \o <<DelayMicroseconds(10),
                           DigitalWrite(sTriggerOutPin, "LOW")>>
    /\ pc' = "idle"
    /\ isrInStart' = Len(isrLog)
    /\ UNCHANGED <<pinVars, nonBlockingVars, micros, lastOp, lastArg, retVal,
                   pollBranch, isrAtPoll, isrLog, startedAt, validResult,
                   prevRet, ticks>>

\* The return of isUSDistanceMeasureFinished.
PollReturn(result, branch) ==
    /\ retVal' = result
    /\ pollBranch' = branch
    /\ pc' = "idle"

\* Line 286.
Poll286 ==
    /\ Called("isUSDistanceMeasureFinished", <<>>)
    /\ isrAtPoll' = Len(isrLog)
    /\ hwLog' = <<>>
    /\ retVal' = "void"
    /\ pollBranch' = "none"
    /\ pc' = IF sUSValueIsValid THEN "287" ELSE "291"
    /\ UNCHANGED <<pinVars, nonBlockingVars, micros, cycleVars, ticks>>

\* The flag cleared when the result is taken.
Poll287_ClearsFlag ==
    /\ pc = "287"
    /\ sUSDistanceCentimeter' = getCentimeterFromUSMicroSeconds(ToUInt(sUSPulseMicros))
    /\ sUSValueIsValid' = FALSE
    /\ PollReturn(TRUE, "valid")
    /\ UNCHANGED <<pinVars, sUSPulseMicros, sMicrosAtStartOfPulse,
                   sTimeoutMicros, PCMSK, micros, lastOp, lastArg, hwLog,
                   isrAtPoll, prevRet, cycleVars, ticks>>

\* Lines 287-288.  The unsigned long is converted to the unsigned int
\* parameter of getCentimeterFromUSMicroSeconds.
Poll287Statement ==
    /\ pc = "287"
    /\ sUSDistanceCentimeter' = getCentimeterFromUSMicroSeconds(ToUInt(sUSPulseMicros))
    /\ PollReturn(TRUE, "valid")
    /\ UNCHANGED <<pinVars, sUSPulseMicros, sUSValueIsValid,
                   sMicrosAtStartOfPulse, sTimeoutMicros, PCMSK, micros,
                   lastOp, lastArg, hwLog, isrAtPoll, prevRet, isrLog,
                   isrInStart, startedAt, ticks>>

\* Lines 287-288, the result not recorded for the observer.
Poll287 ==
    /\ Poll287Statement
    /\ UNCHANGED validResult

\* Lines 287-288, the first valid result since the last start recorded.
Poll287Recorded ==
    /\ Poll287Statement
    /\ validResult' = IF validResult = -1
                      THEN sUSDistanceCentimeter'
                      ELSE validResult

\* The timeout tested whether or not a pulse has started.
Poll291_NoTimestampTest ==
    /\ pc = "291"
    /\ pc' = "292"
    /\ UNCHANGED <<retVal, pollBranch>>
    /\ UNCHANGED <<pinVars, nonBlockingVars, micros, lastOp, lastArg, hwLog,
                   isrAtPoll, prevRet, cycleVars, ticks>>

\* Lines 291 and 298.
Poll291 ==
    /\ pc = "291"
    /\ IF sMicrosAtStartOfPulse # 0
       THEN pc' = "292" /\ UNCHANGED <<retVal, pollBranch>>
       ELSE PollReturn(FALSE, "pending")
    /\ UNCHANGED <<pinVars, nonBlockingVars, micros, lastOp, lastArg, hwLog,
                   isrAtPoll, prevRet, cycleVars, ticks>>

\* Lines 292-298.
Poll292 ==
    /\ pc = "292"
    /\ IF (micros - sMicrosAtStartOfPulse) >= sTimeoutMicros
       THEN /\ PCMSK' = PCMSK \ {sEchoInPin}
            /\ hwLog' = Append(hwLog, DisablePCInt(sEchoInPin))
            /\ PollReturn(TRUE, "timeout")
       ELSE /\ PollReturn(FALSE, "pending")
            /\ UNCHANGED <<PCMSK, hwLog>>
    /\ UNCHANGED <<pinVars, sUSDistanceCentimeter, sUSPulseMicros,
                   sUSValueIsValid, sMicrosAtStartOfPulse, sTimeoutMicros,
                   micros, lastOp, lastArg, isrAtPoll, prevRet, cycleVars,
                   ticks>>

\* The clock advances between the calls of the main flow.
Tick(d) ==
    /\ pc = "idle"
    /\ ticks < MaxTicks
    /\ micros' = micros + d
    /\ ticks' = ticks + 1
    /\ UNCHANGED <<pinVars, nonBlockingVars, pc, callVars, cycleVars>>

(***************************************************************************)
(* The driver with its callers and the sensor.                             *)
(***************************************************************************)
InitPins == \E t \in TriggerPins, e \in EchoPins : initUSDistancePins(t, e)
InitPin == \E t \in TriggerPins : initUSDistancePin(t)
MeasureMicros == \E t \in TimeoutMicros, p \in PulseMicros : CallGetUSDistance(t, p)
MeasureCentimeter ==
    \E t \in TimeoutMicros, p \in PulseMicros : CallGetUSDistanceAsCentiMeter(t, p)
MeasureCentimeterTimeout ==
    \E c \in TimeoutCentimeters, p \in PulseMicros :
        CallGetUSDistanceAsCentiMeterWithCentimeterTimeout(c, p)
Convert == \E d \in PulseMicros : CallGetCentimeterFromUSMicroSeconds(d)
Start == \E c \in StartTimeoutCentimeters : Start261(c)
Interrupt == \E s \in {0, 1} : handlePCInterrupt(s)
Clock == \E d \in TickSteps : Tick(d)

NextBlocking ==
    \/ InitPins
    \/ InitPin
    \/ MeasureMicros
    \/ MeasureCentimeter
    \/ MeasureCentimeterTimeout
    \/ Convert

NextNonBlocking ==
    \/ InitPins
    \/ InitPin
    \/ Start
    \/ Start268
    \/ Start269
    \/ Start274
    \/ Poll286
    \/ Poll287
    \/ Poll291
    \/ Poll292
    \/ Interrupt
    \/ Clock

Next == NextBlocking \/ NextNonBlocking

\* The whole driver.
Spec == Init /\ [][Next]_vars

\* The whole driver with few inputs.
StartDriver == \E c \in DriverTimeoutCentimeters : Start261(c)
ClockDriver == \E d \in DriverTickSteps : Tick(d)
MeasureDriver ==
    \E p \in DriverPulseMicros :
        \/ \E t \in DriverTimeoutMicros : CallGetUSDistance(t, p)
        \/ \E t \in DriverTimeoutMicros : CallGetUSDistanceAsCentiMeter(t, p)
        \/ \E c \in DriverTimeoutCentimeters :
              CallGetUSDistanceAsCentiMeterWithCentimeterTimeout(c, p)

NextDriver ==
    \/ InitPins
    \/ InitPin
    \/ MeasureDriver
    \/ StartDriver
    \/ Start268
    \/ Start269
    \/ Start274
    \/ Poll286
    \/ Poll287
    \/ Poll291
    \/ Poll292
    \/ Interrupt
    \/ ClockDriver

SpecDriver == Init /\ [][NextDriver]_vars

\* The non-blocking strategy with few inputs, polled repeatedly: the first
\* valid result of each measurement cycle is recorded.
NextRepeatedPoll ==
    \/ InitPins
    \/ StartDriver
    \/ Start268
    \/ Start269
    \/ Start274
    \/ Poll286
    \/ Poll287Recorded
    \/ Poll291
    \/ Poll292
    \/ Interrupt
    \/ ClockDriver

SpecRepeatedPoll == Init /\ [][NextRepeatedPoll]_vars

\* The blocking strategy alone and the non-blocking strategy alone: neither
\* reads or writes a variable the other one writes.
SpecBlocking == Init /\ [][NextBlocking]_vars
SpecNonBlocking == Init /\ [][NextNonBlocking]_vars

(***************************************************************************)
(* The conversions over the whole range of their argument: the driver as   *)
(* the application sets it up (2 pin mode, trigger 5, echo 4), and one     *)
(* call with an argument drawn from the unsigned int range: a conversion,  *)
(* a blocking measurement or the start of a non-blocking one.              *)
(***************************************************************************)
ConversionPulses == {0, 5825}

InitConversion ==
    /\ sTriggerOutPin = 5
    /\ sEchoInPin = 4
    /\ sHCSR04Mode = HCSR04_MODE_USE_2_PINS
    /\ sUSDistanceCentimeter = 0
    /\ sUSPulseMicros = 0
    /\ sUSValueIsValid = FALSE
    /\ sMicrosAtStartOfPulse = 0
    /\ sTimeoutMicros = 0
    /\ PCMSK = {}
    /\ micros = 0
    /\ pc = "idle"
    /\ lastOp = "none"
    /\ lastArg \in {<<x>> : x \in UIntRange}
    /\ retVal = "void"
    /\ pollBranch = "none"
    /\ hwLog = <<>>
    /\ isrLog = <<>>
    /\ isrInStart = 0
    /\ isrAtPoll = 0
    /\ startedAt = -1
    /\ validResult = -1
    /\ prevRet = -1
    /\ ticks = 0

ConvertArgument ==
    /\ lastOp = "none"
    /\ CallGetCentimeterFromUSMicroSeconds(lastArg[1])

MeasureArgument ==
    /\ lastOp = "none"
    /\ \E p \in ConversionPulses :
          CallGetUSDistanceAsCentiMeterWithCentimeterTimeout(lastArg[1], p)

StartArgument ==
    /\ lastOp = "none"
    /\ Start261(lastArg[1])

NextConversion ==
    \/ ConvertArgument
    \/ MeasureArgument
    \/ StartArgument
    \/ Start268
    \/ Start269
    \/ Start274

SpecConversion == InitConversion /\ [][NextConversion]_vars

(***************************************************************************)
(* The application (src/Blind_Guidance.ino): setup, then the loop, one     *)
(* blocking measurement per iteration.                                     *)
(***************************************************************************)
ECHO_IN_PIN == 4
TRIGGER_OUT_PIN == 5
audioFile == "atnobs.wav"
\* The arguments of loop(): the timeout of the measurement and the alert
\* distance, in centimeters.
LoopTimeoutCentimeter == 300
lengthCentimeterAlert == 200

\* The calls of the driver in setup_radar (its delay is not recorded).
setup_radar == initUSDistancePins(TRIGGER_OUT_PIN, ECHO_IN_PIN)

getPeriod(lengthCentimeter) ==
    IF lengthCentimeter >= 150 THEN 4000
    ELSE IF lengthCentimeter >= 100 THEN 2000
    ELSE IF lengthCentimeter >= 80 THEN 1000
    ELSE 500

\* The outputs of sendMessage, in order; sendSound plays the file.
sendMessage(lengthCentimeter, aAlert, intervalMessage) ==
    (IF lengthCentimeter >= aAlert
     THEN <<SerialPrint("Longue distance", lengthCentimeter)>>
     ELSE <<SerialPrint("Cas nominal", lengthCentimeter), Play(audioFile)>>)
    \o <<Delay(intervalMessage)>>

\* One iteration of loop() when the sensor answers with aPulse.
loop(aPulse) ==
    LET tTimeoutMicros == TimeoutMicrosLong(LoopTimeoutCentimeter)
        lengthCentimeter == getUSDistanceAsCentiMeter(tTimeoutMicros, aPulse)
        intervalMessage == getPeriod(lengthCentimeter)
    IN  Blocking("loop", <<aPulse>>,
                 getUSDistanceAccesses(tTimeoutMicros)
                   \o <<SerialPrint("Period", intervalMessage)>>
                   \o sendMessage(lengthCentimeter, lengthCentimeterAlert,
                                  intervalMessage),
                 "void")

SetupApplication ==
    /\ lastOp = "none"
    /\ setup_radar

LoopApplication ==
    /\ lastOp # "none"
    /\ \E p \in LoopPulses : loop(p)

NextApplication ==
    \/ SetupApplication
    \/ LoopApplication

SpecApplication == Init /\ [][NextApplication]_vars

(***************************************************************************)
(* The properties.                                                         *)
(***************************************************************************)
\* The conversions as the specification states them, over the integers.
MicrosecondsToCentimeters(d) == (d * 100) \div 5825
CentimetersToTimeoutMicros(c) == ((c * 233) + 2) \div 4

StartOp == "startUSDistanceAsCentiMeterWithCentimeterTimeoutNonBlocking"
PollOp == "isUSDistanceMeasureFinished"
\* The last call of the main flow has returned.
Returned(op) == lastOp = op /\ pc = "idle"
\* The driver was initialised.
Initialized == sHCSR04Mode # HCSR04_MODE_UNITITIALIZED
\* The timeout the last blocking measurement handed to pulseInLong.
PulseInTimeout == hwLog[Len(hwLog)].us

\* C1: while the mode is uninitialized, every blocking measurement
\* (getUSDistance, getUSDistanceAsCentiMeter,
\* getUSDistanceAsCentiMeterWithCentimeterTimeout) returns 0 and accesses no
\* hardware: no pin write, no direction change, no delay, no pulse
\* measurement, for every timeout.
C1_UninitializedBlockingReturnsZero ==
    (lastOp \in BlockingOps /\ sHCSR04Mode = HCSR04_MODE_UNITITIALIZED)
        => (retVal = 0 /\ hwLog = <<>>)

\* A measurement with a centimeter timeout of 300 and an echo of 5825 us
\* was called before any initialisation.
C1_Witness ==
    /\ lastOp = "getUSDistanceAsCentiMeterWithCentimeterTimeout"
    /\ sHCSR04Mode = HCSR04_MODE_UNITITIALIZED
    /\ lastArg = <<300, 5825>>
    /\ retVal = 0

\* C2: a non-blocking start (and a poll after it) while the mode is
\* uninitialized touches no hardware (no write of the trigger pin, no pin
\* enabled for the interrupt) and leaves the result 0.
C2_UninitializedStartTouchesNothing ==
    (lastOp \in {StartOp, PollOp} /\ sHCSR04Mode = HCSR04_MODE_UNITITIALIZED)
        => (hwLog = <<>> /\ PCMSK = {} /\ sUSDistanceCentimeter = 0)

\* A poll returns.
PollReturns == lastOp = PollOp /\ pc # "idle" /\ pc' = "idle"

\* C3: after a start of the initialised driver, when the handler has not
\* run and the clock is past the start by more than the stored timeout, a
\* poll returns done.
C3_PollDoneAfterTimeoutWithoutEdge ==
    [][(/\ PollReturns
        /\ Initialized
        /\ startedAt >= 0
        /\ isrLog = <<>>
        /\ micros - startedAt > sTimeoutMicros)
           => retVal' = TRUE]_vars

\* C4: when a poll reports done by its timeout branch, the centimeter
\* result the caller reads is 0, whatever the cycles before produced.
C4_TimeoutResultIsZero ==
    (Returned(PollOp) /\ Initialized /\ pollBranch = "timeout")
        => sUSDistanceCentimeter = 0

\* C5: after any history of cycles, a poll after a start, with no handler
\* invocation since that start was called, returns not done.
C5_PollAfterStartNotDone ==
    (Returned(PollOp) /\ startedAt >= 0 /\ isrLog = <<>>) => retVal = FALSE

\* A cycle before completed with a result, and the poll after the next
\* start returned not done.
C5_Witness ==
    /\ Returned(PollOp)
    /\ startedAt > 0
    /\ isrLog = <<>>
    /\ sUSDistanceCentimeter > 0
    /\ retVal = FALSE

\* The handler ran exactly twice since the start returned and before the
\* poll was called: on a rising edge, then on a falling edge.
RisingThenFalling ==
    /\ Len(isrLog) = 2
    /\ isrInStart = 0
    /\ isrAtPoll = 2
    /\ isrLog[1].state = 1
    /\ isrLog[2].state = 0

\* C6: after a start, a rising and then a falling edge Delta microseconds
\* apart, the next poll returns done with microsecondsToCentimeters(Delta),
\* for every Delta and every timestamp of the rising edge.
C6_PollReturnsCentimetersOfDelta ==
    (Returned(PollOp) /\ Initialized /\ RisingThenFalling)
        => /\ retVal = TRUE
           /\ sUSDistanceCentimeter =
                  MicrosecondsToCentimeters(isrLog[2].at - isrLog[1].at)

\* C7: in 1 pin mode a blocking measurement accesses the pin in this order:
\* driven high, switched to output, settle delay, driven low, 20 us wait,
\* switched to input, echo pulse measured on the same pin.
C7_OnePinOrder ==
    (lastOp \in BlockingOps /\ sHCSR04Mode = HCSR04_MODE_USE_1_PIN)
        => /\ Len(hwLog) = 7
           /\ hwLog[1] = DigitalWrite(sTriggerOutPin, "HIGH")
           /\ hwLog[2] = PinMode(sTriggerOutPin, "OUTPUT")
           /\ hwLog[3].op = "delayMicroseconds"
           /\ hwLog[4] = DigitalWrite(sTriggerOutPin, "LOW")
           /\ hwLog[5] = DelayMicroseconds(20)
           /\ hwLog[6] = PinMode(sTriggerOutPin, "INPUT")
           /\ hwLog[7].op = "pulseInLong"
           /\ hwLog[7].pin = sTriggerOutPin

\* A blocking measurement in 1 pin mode on pin 5 returned the echo.
C7_Witness ==
    /\ lastOp = "getUSDistance"
    /\ sHCSR04Mode = HCSR04_MODE_USE_1_PIN
    /\ sTriggerOutPin = 5
    /\ lastArg = <<20000, 5825>>
    /\ retVal = 5825

\* C8: for every duration d of the unsigned int range,
\* getCentimeterFromUSMicroSeconds(d) is floor(d * 100 / 5825), the product
\* not overflowing; it is 0 for 0 and 100 for 5825.
C8_MicrosecondsToCentimeters ==
    lastOp = "getCentimeterFromUSMicroSeconds"
        => /\ retVal = MicrosecondsToCentimeters(lastArg[1])
           /\ (lastArg[1] = 0 => retVal = 0)
           /\ (lastArg[1] = 5825 => retVal = 100)

\* The largest duration was converted: its product with 100 does not fit
\* into 16 bits.
C8_Witness ==
    /\ lastOp = "getCentimeterFromUSMicroSeconds"
    /\ lastArg = <<65535>>
    /\ retVal = 1125

\* C9: for every centimeter timeout c of the unsigned int range, the
\* timeout getUSDistanceAsCentiMeterWithCentimeterTimeout(c) hands to the
\* blocking measurement is floor((c * 233 + 2) / 4).
C9_TimeoutOfCentimeters ==
    lastOp = "getUSDistanceAsCentiMeterWithCentimeterTimeout"
        => PulseInTimeout = CentimetersToTimeoutMicros(lastArg[1])

\* C10: for every c in 1..1000, converting the timeout computed for c back
\* to centimeters gives a value that differs from c by at most 1.
C10_ApproximateInverse ==
    (/\ lastOp = "getUSDistanceAsCentiMeterWithCentimeterTimeout"
     /\ lastArg[1] \in 1 .. 1000)
        => (getCentimeterFromUSMicroSeconds(PulseInTimeout) - lastArg[1])
               \in {-1, 0, 1}

\* The measurement was called with a timeout of 1 cm: 58 us, which
\* convert back to 0 cm.
C10_Witness ==
    /\ lastOp = "getUSDistanceAsCentiMeterWithCentimeterTimeout"
    /\ lastArg[1] = 1
    /\ PulseInTimeout = 58
    /\ getCentimeterFromUSMicroSeconds(PulseInTimeout) = 0

\* C11: a blocking measurement returns what the same measurement (same
\* operation, same timeout, same echo pulse, hence same mode) returned right
\* before it, whatever blocking and non-blocking measurements ran earlier
\* and whatever the handler did in between.
C11_BlockingKeepsNoState ==
    (lastOp \in BlockingOps /\ prevRet >= 0) => retVal = prevRet

\* The same measurement was made twice in a row with an echo of 10 cm,
\* after a non-blocking cycle completed with a result and while the
\* handler has stored a pulse.
C11_Witness ==
    /\ lastOp = "getUSDistanceAsCentiMeter"
    /\ prevRet = 9
    /\ retVal = 9
    /\ sUSDistanceCentimeter > 0
    /\ sUSPulseMicros > 0

InitOps == {"initUSDistancePins", "initUSDistancePin"}
\* What the initialisation called last has set up.
InitPostcondition ==
    /\ (lastOp = "initUSDistancePins" /\ lastArg[2] # 0)
           => /\ sHCSR04Mode = HCSR04_MODE_USE_2_PINS
              /\ sTriggerOutPin = lastArg[1]
              /\ sEchoInPin = lastArg[2]
              /\ hwLog = <<PinMode(lastArg[1], "OUTPUT"),
                           PinMode(lastArg[2], "INPUT")>>
    /\ (\/ (lastOp = "initUSDistancePins" /\ lastArg[2] = 0)
        \/ lastOp = "initUSDistancePin")
           => /\ sHCSR04Mode = HCSR04_MODE_USE_1_PIN
              /\ sTriggerOutPin = lastArg[1]
              /\ hwLog = <<>>
\* The step is a call of an initialisation.
InitStep ==
    /\ pc = "idle"
    /\ pc' = "idle"
    /\ lastOp' \in InitOps
    /\ micros' = micros
    /\ isrLog' = isrLog

\* C12: an initialisation with an echo pin sets 2 pin mode and configures
\* the trigger pin as output and the echo pin as input; one without (or
\* with the echo pin 0) sets 1 pin mode and configures no pin direction,
\* whatever the mode was before; no other step changes the mode, and the
\* mode never returns to uninitialized.
C12_ModeSetByInitOnly ==
    [][/\ InitPostcondition'
       /\ (sHCSR04Mode' # sHCSR04Mode => InitStep)
       /\ (sHCSR04Mode' = HCSR04_MODE_UNITITIALIZED
              => sHCSR04Mode = HCSR04_MODE_UNITITIALIZED)]_vars

\* The driver was initialised for 2 pins (echo pin 4), a non-blocking
\* cycle completed with a result, and the driver was initialised again
\* for 1 pin.
C12_Witness ==
    /\ lastOp = "initUSDistancePin"
    /\ sHCSR04Mode = HCSR04_MODE_USE_1_PIN
    /\ sEchoInPin = 4
    /\ sUSDistanceCentimeter > 0

\* The distance the last iteration of the loop measured, as it printed it.
LoopLength ==
    LET i == CHOOSE j \in DOMAIN hwLog :
                 /\ hwLog[j].op = "Serial.print"
                 /\ hwLog[j].label \in {"Longue distance", "Cas nominal"}
    IN  hwLog[i].value
\* The last iteration of the loop played the audio message.
LoopPlayed == \E j \in DOMAIN hwLog : hwLog[j] = Play(audioFile)

\* C13: an iteration of the loop plays the audio message exactly when its
\* measurement detected an object closer than 200 cm; an iteration whose
\* measurement gave no reading (0) plays nothing.
C13_AlertOnlyWhenObjectDetected ==
    lastOp = "loop"
        => (LoopPlayed <=> (LoopLength > 0 /\ LoopLength < lengthCentimeterAlert))

\* C14: for every centimeter timeout c of the unsigned int range, the
\* timeout in microseconds the non-blocking start stores for c is the one
\* getUSDistanceAsCentiMeterWithCentimeterTimeout(c) measures with.
C14_SameTimeoutConversion ==
    lastOp = StartOp => sTimeoutMicros = TimeoutMicrosLong(lastArg[1])

\* The time since the start of the pulse, as the poll computes it.
Elapsed == micros - sMicrosAtStartOfPulse
\* The poll has read the validity flag as unset.
FlagReadUnset == pc \in {"291", "292"}

\* C15 as claimed: a poll of the initialised driver returns by its timeout
\* branch only when a pulse start was recorded and the time since it is
\* greater than the stored timeout; a poll that read the flag as unset
\* while that time is at most the stored timeout returns not done.
C15_TimeoutStrictlyAfter ==
    [][(PollReturns /\ Initialized) =>
         /\ (pollBranch' = "timeout"
               => (sMicrosAtStartOfPulse # 0 /\ Elapsed > sTimeoutMicros))
         /\ ((FlagReadUnset /\ Elapsed <= sTimeoutMicros)
               => retVal' = FALSE)]_vars

\* C15 as amended: a poll returns by its timeout branch only when a pulse
\* start was recorded and the time since it is at least the stored timeout;
\* a poll that read the flag as unset while that time is less than the
\* stored timeout returns not done.
C15_TimeoutAtOrAfter ==
    [][PollReturns =>
         /\ (pollBranch' = "timeout"
               => (sMicrosAtStartOfPulse # 0 /\ Elapsed >= sTimeoutMicros))
         /\ ((FlagReadUnset /\ Elapsed < sTimeoutMicros)
               => retVal' = FALSE)]_vars

\* A poll returned by its timeout branch exactly when the time since the
\* start of the pulse reached the stored timeout of 5825 us.
C15_Witness ==
    /\ Returned(PollOp)
    /\ pollBranch = "timeout"
    /\ sTimeoutMicros = 5825
    /\ sMicrosAtStartOfPulse # 0
    /\ Elapsed = sTimeoutMicros

\* The poll called last reported a timeout, and nothing was called since.
PollTimedOut == Returned(PollOp) /\ pollBranch = "timeout"
\* The step is an invocation of the interrupt handler.
HandlerStep == Len(isrLog') = Len(isrLog) + 1
\* The step is the call of the non-blocking start.
StartStep == pc = "idle" /\ pc' = "268" /\ lastOp' = StartOp

\* C16: when a poll of the initialised driver has reported a timeout, the
\* interrupt of the echo pin is disabled, and until the next start no
\* handler invocation follows; the interrupt of the echo pin is enabled by
\* nothing but a start.
C16_DisabledUntilNextStart ==
    [][/\ (PollTimedOut' /\ Initialized') => sEchoInPin' \notin PCMSK'
       /\ (PollTimedOut /\ Initialized) => ~HandlerStep
       /\ (sEchoInPin \notin PCMSK /\ sEchoInPin' \in PCMSK') => StartStep]_vars

\* The fields the handler writes.
handlerVars == <<sUSValueIsValid, sMicrosAtStartOfPulse, sUSPulseMicros>>
\* The step is a statement of the poll, or one of the start.
PollStep == lastOp' = PollOp /\ pc' # pc
StartStatement == lastOp' = StartOp /\ pc' # pc

\* C17: no statement of the poll changes the validity flag, the start
\* timestamp of the pulse or the stored pulse duration, wherever the
\* handler ran in between; only the handler and the start change them.
C17_PollWritesNoHandlerField ==
    [][/\ PollStep => UNCHANGED handlerVars
       /\ (handlerVars' # handlerVars) => (HandlerStep \/ StartStatement)]_vars

\* The handler ran on the falling edge while the poll is past its test of
\* the flag: the flag it set is still set.
C17_Witness ==
    /\ lastOp = PollOp
    /\ pc = "292"
    /\ Len(isrLog) > isrAtPoll
    /\ sUSValueIsValid
    /\ sUSPulseMicros > 0

\* The pin the echo is taken from in the current mode.
EchoSource ==
    IF sHCSR04Mode = HCSR04_MODE_USE_1_PIN THEN sTriggerOutPin ELSE sEchoInPin

\* C18: in the initialised driver, a blocking measurement measures the
\* pulse on, and a non-blocking start arms the interrupt of, the shared
\* trigger pin in 1 pin mode and the echo pin in 2 pin mode, also after a
\* later initialisation changed the mode.
C18_ModeSelectsEchoSource ==
    Initialized =>
        /\ lastOp \in BlockingOps
              => hwLog[Len(hwLog)] = PulseIn(EchoSource, PulseInTimeout)
        /\ lastOp = StartOp => hwLog[2] = EnablePCInt(EchoSource)

\* Where the last blocking measurement drove the trigger pin low, and the
\* delay it waited right before and right after.
TriggerLowIndex ==
    CHOOSE i \in DOMAIN hwLog : hwLog[i] = DigitalWrite(sTriggerOutPin, "LOW")
TriggerHighMicros == hwLog[TriggerLowIndex - 1].us
TriggerLowMicros == hwLog[TriggerLowIndex + 1].us

\* C19 as claimed: a blocking measurement of the initialised driver holds
\* the trigger pin high for at least 10 us in 2 pin mode and for 20 us in
\* 1 pin mode before it drives it low.
C19_TriggerPulseByMode ==
    (lastOp \in BlockingOps /\ Initialized)
        => /\ hwLog[1] = DigitalWrite(sTriggerOutPin, "HIGH")
           /\ hwLog[TriggerLowIndex - 1].op = "delayMicroseconds"
           /\ (sHCSR04Mode = HCSR04_MODE_USE_2_PINS => TriggerHighMicros >= 10)
           /\ (sHCSR04Mode = HCSR04_MODE_USE_1_PIN => TriggerHighMicros = 20)

\* C19 as amended: a blocking measurement of the initialised driver holds
\* the trigger pin high for 10 us in both modes before it drives it low;
\* the 20 us of 1 pin mode are waited after that, with the pin low, before
\* the pin is switched to input.
C19_TriggerPulseTenMicros ==
    (lastOp \in BlockingOps /\ Initialized)
        => /\ hwLog[1] = DigitalWrite(sTriggerOutPin, "HIGH")
           /\ hwLog[TriggerLowIndex - 1].op = "delayMicroseconds"
           /\ TriggerHighMicros = 10
           /\ (sHCSR04Mode = HCSR04_MODE_USE_1_PIN
                 => /\ hwLog[TriggerLowIndex + 1].op = "delayMicroseconds"
                    /\ TriggerLowMicros = 20
                    /\ hwLog[TriggerLowIndex + 2] = PinMode(sTriggerOutPin, "INPUT"))

\* A blocking measurement in 1 pin mode held the pin high for 10 us and
\* returned 1 m.
C19_Witness ==
    /\ lastOp = "getUSDistanceAsCentiMeter"
    /\ sHCSR04Mode = HCSR04_MODE_USE_1_PIN
    /\ TriggerHighMicros = 10
    /\ TriggerLowMicros = 20
    /\ retVal = 100

\* The start drives the trigger pin low and returns.
StartReturns == lastOp = StartOp /\ pc = "274" /\ pc' = "idle"

\* C20: when a start of the driver in 2 pin mode returns, the validity flag
\* is unset and the stored pulse duration and the start timestamp of the
\* pulse are 0, wherever the handler ran between the statements of the
\* start.
C20_StartReturnsClean ==
    [][(StartReturns /\ sHCSR04Mode = HCSR04_MODE_USE_2_PINS)
          => /\ sUSValueIsValid' = FALSE
             /\ sUSPulseMicros' = 0
             /\ sMicrosAtStartOfPulse' = 0]_vars

\* C21: once a poll of the driver in 2 pin mode has returned a valid
\* result, every poll that returns before the next start returns done with
\* that same centimeter result, whatever edges the handler saw in between
\* (for a start that armed the echo pin and returned before the handler
\* ran).
C21_ValidResultStable ==
    (Returned(PollOp) /\ sHCSR04Mode = HCSR04_MODE_USE_2_PINS
                      /\ PCMSK = {sEchoInPin}
                      /\ isrInStart = 0 /\ validResult >= 0)
        => (retVal = TRUE /\ sUSDistanceCentimeter = validResult)

====
